---- MODULE Spec2Model ----
(***************************************************************************)
(* The api_yatube REST controllers (yatube_api/api/views.py): PostViewSet, *)
(* GroupViewSet and CommentViewSet over a store of posts, comments and     *)
(* groups.  Every action is one HTTP request handled from dispatch to      *)
(* response: permission check, object lookup, body validation, the         *)
(* perform_* hook, and its write to the store.                             *)
(***************************************************************************)
EXTENDS Integers, FiniteSets, Sequences, TLC

\* ---- bounds -------------------------------------------------------------
MaxPostId == 2
MaxCommentId == 1

\* ---- values -------------------------------------------------------------
Users == {"u1", "u2"}
Anon == "anon"
Callers == Users \cup {Anon}
NoUser == "nouser"
NoText == "notext"
NoPost == 0
Texts == {"a", "b"}
\* the texts the bodies of post requests carry
PostTexts == {"a"}
PostIds == 1..MaxPostId
CommentIds == 1..MaxCommentId
GroupIds == {1}

SAFE_METHODS == {"GET", "HEAD", "OPTIONS"}

Method(action) ==
    CASE action \in {"list", "retrieve"} -> "GET"
      [] action = "create" -> "POST"
      [] action = "update" -> "PUT"
      [] action = "partial_update" -> "PATCH"
      [] action = "destroy" -> "DELETE"

EmptyBody == [text |-> NoText, author |-> NoUser, post |-> NoPost]
\* request bodies: a text (or none), an author field (or none) and, for a
\* comment, a parent post field (or none)
BodyAuthors == {NoUser, "u2"}
BodyPosts == {NoPost, 1}
PostBodies == [text : PostTexts \cup {NoText}, author : BodyAuthors, post : {NoPost}]
CommentBodies == [text : Texts \cup {NoText}, author : BodyAuthors, post : BodyPosts]
GroupBodies == [text : Texts, author : {NoUser}, post : {NoPost}]

VARIABLES
    posts,           \* Post rows: [id, author, text]
    comments,        \* Comment rows: [id, author, post, text]
    groups,          \* Group rows: [id, title]
    nextPostId,      \* next primary key of the posts table
    nextCommentId,   \* next primary key of the comments table
    request,         \* the request being answered
    response         \* its response: [status, data]

vars == <<posts, comments, groups, nextPostId, nextCommentId, request, response>>

store == <<posts, comments, groups>>

Writes == {"create", "update", "partial_update", "destroy"}
Reads == {"list", "retrieve"}

\* ---- permissions --------------------------------------------------------
IsAuthenticated(req) == req.caller \in Users

IsAuthenticatedOrReadOnly(req) ==
    Method(req.action) \in SAFE_METHODS \/ req.caller \in Users

PostViewSet_permission_classes(req) == IsAuthenticated(req)

Mut_CommentViewSet_permission_classes(req) == IsAuthenticatedOrReadOnly(req)

CommentViewSet_permission_classes(req) ==
    IsAuthenticatedOrReadOnly(req) /\ IsAuthenticated(req)

\* GroupViewSet declares no permission_classes
GroupViewSet_permission_classes(req) == TRUE

\* ---- serializers --------------------------------------------------------
\* a body is valid when its required text is present; a partial update
\* requires nothing
is_valid(req) == req.action = "partial_update" \/ req.body.text # NoText

\* the writable fields of the body: author and post are read-only
PostSerializer_validated_data(req) == [text |-> req.body.text]
CommentSerializer_validated_data(req) == [text |-> req.body.text]

\* serializer.save(**kwargs) on a new instance: validated data, then kwargs
serializer_create(id, validated, kwargs) ==
    [f \in DOMAIN validated \cup DOMAIN kwargs \cup {"id"} |->
        IF f = "id" THEN id
        ELSE IF f \in DOMAIN kwargs THEN kwargs[f] ELSE validated[f]]

\* serializer.save() on an existing instance: the validated fields present
serializer_update(instance, validated) ==
    [instance EXCEPT !.text = IF validated.text = NoText THEN @ ELSE validated.text]

\* deleting a post deletes its comments
Post_delete(instance) ==
    [posts |-> posts \ {instance},
     comments |-> {c \in comments : c.post # instance.id}]

Result(status, data, p, c, g) ==
    [status |-> status, data |-> data, posts |-> p, comments |-> c, groups |-> g]

Fail(status) == Result(status, {}, posts, comments, groups)

\* ---- PostViewSet ---------------------------------------------------------
PostViewSet_get_object(req) == {p \in posts : p.id = req.pk}

Mut_PostViewSet_perform_create(req, validated) ==
    serializer_create(nextPostId, validated,
        [author |-> IF req.body.author # NoUser THEN req.body.author ELSE req.caller])

PostViewSet_perform_create(req, validated) ==
    serializer_create(nextPostId, validated, [author |-> req.caller])

Mut_PostViewSet_perform_update(req, instance, validated) ==
    IF instance.author # req.caller
    THEN Fail("PermissionDenied")
    ELSE LET saved == serializer_update(instance, validated)
             obj == [saved EXCEPT !.author =
                        IF req.body.author # NoUser THEN req.body.author ELSE @]
         IN  Result("OK", {obj}, (posts \ {instance}) \cup {obj}, comments, groups)

PostViewSet_perform_update(req, instance, validated) ==
    IF instance.author # req.caller
    THEN Fail("PermissionDenied")
    ELSE LET obj == serializer_update(instance, validated)
         IN  Result("OK", {obj}, (posts \ {instance}) \cup {obj}, comments, groups)

PostViewSet_perform_destroy(req, instance) ==
    IF instance.author # req.caller
    THEN Fail("PermissionDenied")
    ELSE LET d == Post_delete(instance)
         IN  Result("NoContent", {}, d.posts, d.comments, groups)

PostViewSet_list(req) == Result("OK", posts, posts, comments, groups)

PostViewSet_retrieve(req) ==
    IF PostViewSet_get_object(req) = {}
    THEN Fail("NotFound")
    ELSE Result("OK", PostViewSet_get_object(req), posts, comments, groups)

PostViewSet_create(req) ==
    IF ~is_valid(req)
    THEN Fail("ValidationError")
    ELSE LET obj == PostViewSet_perform_create(req, PostSerializer_validated_data(req))
         IN  Result("Created", {obj}, posts \cup {obj}, comments, groups)

PostViewSet_update(req) ==
    IF PostViewSet_get_object(req) = {}
    THEN Fail("NotFound")
    ELSE IF ~is_valid(req)
    THEN Fail("ValidationError")
    ELSE PostViewSet_perform_update(req,
             CHOOSE p \in PostViewSet_get_object(req) : TRUE,
             PostSerializer_validated_data(req))

PostViewSet_destroy(req) ==
    IF PostViewSet_get_object(req) = {}
    THEN Fail("NotFound")
    ELSE PostViewSet_perform_destroy(req,
             CHOOSE p \in PostViewSet_get_object(req) : TRUE)

PostViewSet_dispatch(req) ==
    IF ~PostViewSet_permission_classes(req)
    THEN Fail("Unauthenticated")
    ELSE CASE req.action = "list" -> PostViewSet_list(req)
           [] req.action = "retrieve" -> PostViewSet_retrieve(req)
           [] req.action = "create" -> PostViewSet_create(req)
           [] req.action \in {"update", "partial_update"} -> PostViewSet_update(req)
           [] req.action = "destroy" -> PostViewSet_destroy(req)

\* ---- CommentViewSet ------------------------------------------------------
get_post(req) == {p \in posts : p.id = req.post_id}

Mut_get_queryset(req) == comments

get_queryset(req) == {c \in comments : \E post \in get_post(req) : c.post = post.id}

CommentViewSet_get_object(req) == {c \in get_queryset(req) : c.id = req.pk}

Mut_CommentViewSet_perform_create(req, validated) ==
    IF get_post(req) = {}
    THEN Fail("NotFound")
    ELSE LET post == CHOOSE p \in get_post(req) : TRUE
             obj == serializer_create(nextCommentId, validated,
                        [author |-> req.caller,
                         post |-> IF req.body.post # NoPost THEN req.body.post
                                  ELSE post.id])
         IN  Result("Created", {obj}, posts, comments \cup {obj}, groups)

CommentViewSet_perform_create(req, validated) ==
    IF get_post(req) = {}
    THEN Fail("NotFound")
    ELSE LET post == CHOOSE p \in get_post(req) : TRUE
             obj == serializer_create(nextCommentId, validated,
                        [author |-> req.caller, post |-> post.id])
         IN  Result("Created", {obj}, posts, comments \cup {obj}, groups)

Mut_CommentViewSet_perform_update(req, instance, validated) ==
    IF instance.author # req.caller
    THEN Fail("PermissionDenied")
    ELSE LET saved == serializer_update(instance, validated)
             obj == [saved EXCEPT !.post =
                        IF req.body.post # NoPost THEN req.body.post ELSE @]
         IN  Result("OK", {obj}, posts, (comments \ {instance}) \cup {obj}, groups)

CommentViewSet_perform_update(req, instance, validated) ==
    IF instance.author # req.caller
    THEN Fail("PermissionDenied")
    ELSE LET obj == serializer_update(instance, validated)
         IN  Result("OK", {obj}, posts, (comments \ {instance}) \cup {obj}, groups)

CommentViewSet_perform_destroy(req, instance) ==
    IF instance.author # req.caller
    THEN Fail("PermissionDenied")
    ELSE Result("NoContent", {}, posts, comments \ {instance}, groups)

CommentViewSet_list(req) ==
    IF get_post(req) = {}
    THEN Fail("NotFound")
    ELSE Result("OK", get_queryset(req), posts, comments, groups)

CommentViewSet_retrieve(req) ==
    IF get_post(req) = {} \/ CommentViewSet_get_object(req) = {}
    THEN Fail("NotFound")
    ELSE Result("OK", CommentViewSet_get_object(req), posts, comments, groups)

CommentViewSet_create(req) ==
    IF ~is_valid(req)
    THEN Fail("ValidationError")
    ELSE CommentViewSet_perform_create(req, CommentSerializer_validated_data(req))

CommentViewSet_update(req) ==
    IF get_post(req) = {} \/ CommentViewSet_get_object(req) = {}
    THEN Fail("NotFound")
    ELSE IF ~is_valid(req)
    THEN Fail("ValidationError")
    ELSE CommentViewSet_perform_update(req,
             CHOOSE c \in CommentViewSet_get_object(req) : TRUE,
             CommentSerializer_validated_data(req))

CommentViewSet_destroy(req) ==
    IF get_post(req) = {} \/ CommentViewSet_get_object(req) = {}
    THEN Fail("NotFound")
    ELSE CommentViewSet_perform_destroy(req,
             CHOOSE c \in CommentViewSet_get_object(req) : TRUE)

CommentViewSet_dispatch(req) ==
    IF ~CommentViewSet_permission_classes(req)
    THEN Fail("Unauthenticated")
    ELSE CASE req.action = "list" -> CommentViewSet_list(req)
           [] req.action = "retrieve" -> CommentViewSet_retrieve(req)
           [] req.action = "create" -> CommentViewSet_create(req)
           [] req.action \in {"update", "partial_update"} -> CommentViewSet_update(req)
           [] req.action = "destroy" -> CommentViewSet_destroy(req)

\* ---- GroupViewSet --------------------------------------------------------
Mut_GroupViewSet_actions == {"list", "retrieve", "create", "update", "partial_update", "destroy"}

\* ReadOnlyModelViewSet: the actions the handler has
GroupViewSet_actions == {"list", "retrieve"}

GroupViewSet_get_object(req) == {g \in groups : g.id = req.pk}

GroupViewSet_handler(req) ==
    CASE req.action = "list" -> Result("OK", groups, posts, comments, groups)
      [] req.action = "create" ->
            LET obj == [id |-> 1 + Cardinality(groups), title |-> req.body.text]
            IN  Result("Created", {obj}, posts, comments, groups \cup {obj})
      [] OTHER ->
            IF GroupViewSet_get_object(req) = {}
            THEN Fail("NotFound")
            ELSE LET instance == CHOOSE g \in GroupViewSet_get_object(req) : TRUE
                     obj == [instance EXCEPT !.title = req.body.text]
                 IN  CASE req.action = "retrieve" ->
                            Result("OK", {instance}, posts, comments, groups)
                       [] req.action = "destroy" ->
                            Result("NoContent", {}, posts, comments, groups \ {instance})
                       [] OTHER ->
                            Result("OK", {obj}, posts, comments,
                                   (groups \ {instance}) \cup {obj})

GroupViewSet_dispatch(req) ==
    IF ~GroupViewSet_permission_classes(req)
    THEN Fail("Unauthenticated")
    ELSE IF req.action \notin GroupViewSet_actions
    THEN Fail("MethodNotAllowed")
    ELSE GroupViewSet_handler(req)

\* ---- requests ------------------------------------------------------------
Request(view, action, caller, post_id, pk, body) ==
    [view |-> view, action |-> action, caller |-> caller,
     post_id |-> post_id, pk |-> pk, body |-> body]

Respond(req, res) ==
    /\ request' = req
    /\ response' = [status |-> res.status, data |-> res.data]
    /\ posts' = res.posts
    /\ comments' = res.comments
    /\ groups' = res.groups

NoRequest == Request("none", "none", Anon, NoPost, 0, EmptyBody)
NoResponse == [status |-> "none", data |-> {}]

Init ==
    /\ posts = {}
    /\ comments = {}
    /\ groups = {[id |-> g, title |-> "a"] : g \in GroupIds}
    /\ nextPostId = 1
    /\ nextCommentId = 1
    /\ request = NoRequest
    /\ response = NoResponse

\* no request is being answered: each request is handled on its own
Idle == request = NoRequest

PostUnchanged == UNCHANGED nextPostId
CommentUnchanged == UNCHANGED nextCommentId

PostRead ==
    /\ Idle
    /\ \E caller \in Callers, pk \in PostIds \cup {0} :
        LET req == Request("post", IF pk = 0 THEN "list" ELSE "retrieve",
                           caller, NoPost, pk, EmptyBody)
        IN  /\ Respond(req, PostViewSet_dispatch(req))
            /\ PostUnchanged /\ CommentUnchanged

PostCreate ==
    /\ Idle
    /\ nextPostId <= MaxPostId
    /\ \E caller \in Callers, body \in PostBodies :
        LET req == Request("post", "create", caller, NoPost, 0, body)
            res == PostViewSet_dispatch(req)
        IN  /\ Respond(req, res)
            /\ IF res.status = "Created"
               THEN nextPostId' = nextPostId + 1
               ELSE PostUnchanged
            /\ CommentUnchanged

PostUpdate ==
    /\ Idle
    /\ \E caller \in Callers, pk \in PostIds, body \in PostBodies,
       action \in {"update", "partial_update"} :
        LET req == Request("post", action, caller, NoPost, pk, body)
        IN  /\ Respond(req, PostViewSet_dispatch(req))
            /\ PostUnchanged /\ CommentUnchanged

PostDestroy ==
    /\ Idle
    /\ \E caller \in Callers, pk \in PostIds :
        LET req == Request("post", "destroy", caller, NoPost, pk, EmptyBody)
        IN  /\ Respond(req, PostViewSet_dispatch(req))
            /\ PostUnchanged /\ CommentUnchanged

CommentRead ==
    /\ Idle
    /\ \E caller \in Callers, post_id \in PostIds, pk \in CommentIds \cup {0} :
        LET req == Request("comment", IF pk = 0 THEN "list" ELSE "retrieve",
                           caller, post_id, pk, EmptyBody)
        IN  /\ Respond(req, CommentViewSet_dispatch(req))
            /\ PostUnchanged /\ CommentUnchanged

CommentCreate ==
    /\ Idle
    /\ nextCommentId <= MaxCommentId
    /\ \E caller \in Callers, post_id \in PostIds, body \in CommentBodies :
        LET req == Request("comment", "create", caller, post_id, 0, body)
            res == CommentViewSet_dispatch(req)
        IN  /\ Respond(req, res)
            /\ IF res.status = "Created"
               THEN nextCommentId' = nextCommentId + 1
               ELSE CommentUnchanged
            /\ PostUnchanged

CommentUpdate ==
    /\ Idle
    /\ \E caller \in Callers, post_id \in PostIds, pk \in CommentIds,
       body \in CommentBodies, action \in {"update", "partial_update"} :
        LET req == Request("comment", action, caller, post_id, pk, body)
        IN  /\ Respond(req, CommentViewSet_dispatch(req))
            /\ PostUnchanged /\ CommentUnchanged

CommentDestroy ==
    /\ Idle
    /\ \E caller \in Callers, post_id \in PostIds, pk \in CommentIds :
        LET req == Request("comment", "destroy", caller, post_id, pk, EmptyBody)
        IN  /\ Respond(req, CommentViewSet_dispatch(req))
            /\ PostUnchanged /\ CommentUnchanged

GroupRead ==
    /\ Idle
    /\ \E caller \in Callers, pk \in GroupIds \cup {0} :
        LET req == Request("group", IF pk = 0 THEN "list" ELSE "retrieve",
                           caller, NoPost, pk, EmptyBody)
        IN  /\ Respond(req, GroupViewSet_dispatch(req))
            /\ PostUnchanged /\ CommentUnchanged

GroupWrite ==
    /\ Idle
    /\ \E caller \in Callers, pk \in GroupIds \cup {0}, body \in GroupBodies,
       action \in {"update", "partial_update", "destroy"} :
        LET req == Request("group", IF pk = 0 THEN "create" ELSE action,
                           caller, NoPost, pk, body)
        IN  /\ Respond(req, GroupViewSet_dispatch(req))
            /\ PostUnchanged /\ CommentUnchanged

\* the response has been returned; the view and its request are dropped
Finish ==
    /\ ~Idle
    /\ request' = NoRequest
    /\ response' = NoResponse
    /\ UNCHANGED <<posts, comments, groups, nextPostId, nextCommentId>>

Next ==
    \/ PostRead
    \/ PostCreate
    \/ PostUpdate
    \/ PostDestroy
    \/ CommentRead
    \/ CommentCreate
    \/ CommentUpdate
    \/ CommentDestroy
    \/ GroupRead
    \/ GroupWrite
    \/ Finish

Spec == Init /\ [][Next]_vars

\* ---- properties -----------------------------------------------------------

\* C1: an update (PUT or PATCH) or delete of a Post by an authenticated caller
\* who is not its author fails with PermissionDenied, whatever the body, and
\* leaves the Post as it was.
C1_NonAuthorPostDenied ==
    [][(/\ request'.view = "post"
        /\ request'.action \in {"update", "partial_update", "destroy"}
        /\ request'.caller \in Users
        /\ \E p \in posts : p.id = request'.pk /\ p.author # request'.caller)
       => (response'.status = "PermissionDenied" /\ posts' = posts)]_vars

\* C2: an update or delete of a Comment of the path's Post by an authenticated
\* caller who is not its author fails with PermissionDenied and leaves the
\* Comment as it was; the author's request is not denied.
C2_NonAuthorCommentDenied ==
    [][\A c \in comments :
        (/\ request'.view = "comment"
         /\ request'.action \in {"update", "partial_update", "destroy"}
         /\ request'.caller \in Users
         /\ c.id = request'.pk
         /\ c.post = request'.post_id)
        => IF c.author # request'.caller
           THEN response'.status = "PermissionDenied" /\ comments' = comments
           ELSE response'.status # "PermissionDenied"]_vars

\* C3: a list or retrieve on the comments of the path's Post returns only
\* Comments whose parent is that Post; a Comment of another Post is not
\* retrieved through this path.
C3_CommentsScopedToPost ==
    (request.view = "comment" /\ request.action \in Reads)
    => /\ \A c \in response.data : c.post = request.post_id /\ c \in comments
       /\ (request.action = "retrieve"
           /\ \E c \in comments : c.id = request.pk /\ c.post # request.post_id)
          => (response.status # "OK" /\ response.data = {})

C3_Witness ==
    /\ request.view = "comment"
    /\ request.action = "retrieve"
    /\ request.caller \in Users
    /\ \E p \in posts : p.id = request.post_id
    /\ \E c \in comments : c.id = request.pk /\ c.post # request.post_id
    /\ response.status = "NotFound"

\* C4: a successful comment create on the path of Post P yields a Comment
\* whose parent is P, whatever parent the body names.
C4_CreatedCommentParentIsPath ==
    (request.view = "comment" /\ request.action = "create"
     /\ response.status = "Created")
    => /\ response.data # {}
       /\ \A c \in response.data :
            /\ c \in comments
            /\ c.post = request.post_id
            /\ \E p \in posts : p.id = c.post

C4_Witness ==
    /\ request.view = "comment"
    /\ request.action = "create"
    /\ response.status = "Created"
    /\ request.body.post \notin {NoPost, request.post_id}
    /\ \E p \in posts : p.id = request.body.post

\* C5: a successful create of a Post or a Comment yields an entity whose
\* author is the requesting user, whatever author the body names.
C5_CreatedAuthorIsCaller ==
    (request.view \in {"post", "comment"} /\ request.action = "create"
     /\ response.status = "Created")
    => /\ response.data # {}
       /\ response.data \subseteq (IF request.view = "post" THEN posts ELSE comments)
       /\ \A e \in response.data : e.author = request.caller

C5_Witness ==
    /\ request.view = "post"
    /\ request.action = "create"
    /\ response.status = "Created"
    /\ request.body.author \notin {NoUser, request.caller}

\* C6: the author of every Post and Comment is the caller of the request that
\* created it and no later request changes it.
C6_AuthorNeverReassigned ==
    [][/\ \A p \in posts' :
            IF \E q \in posts : q.id = p.id
            THEN \A q \in posts : q.id = p.id => q.author = p.author
            ELSE /\ request'.view = "post" /\ request'.action = "create"
                 /\ p.author = request'.caller
       /\ \A c \in comments' :
            IF \E d \in comments : d.id = c.id
            THEN \A d \in comments : d.id = c.id => d.author = c.author
            ELSE /\ request'.view = "comment" /\ request'.action = "create"
                 /\ c.author = request'.caller]_vars

C6_Witness ==
    /\ request.view = "post"
    /\ request.action \in {"update", "partial_update"}
    /\ response.status = "OK"
    /\ request.body.author \notin {NoUser, request.caller}

\* C7: the parent of every Comment is the Post of the path it was created
\* under and no later request changes it.
C7_ParentNeverChanges ==
    [][\A c \in comments' :
            IF \E d \in comments : d.id = c.id
            THEN \A d \in comments : d.id = c.id => d.post = c.post
            ELSE /\ request'.view = "comment" /\ request'.action = "create"
                 /\ c.post = request'.post_id]_vars

C7_Witness ==
    /\ request.view = "comment"
    /\ request.action \in {"update", "partial_update"}
    /\ response.status = "OK"
    /\ request.body.post \notin {NoPost, request.post_id}
    /\ \E p \in posts : p.id = request.body.post

\* C8: no request changes the Groups; list and retrieve are the only group
\* actions, and a create, update or delete on a group path is answered
\* method-not-allowed.
C8_GroupsReadOnly ==
    [][/\ groups' = groups
       /\ (request'.view = "group" /\ request'.action \in Writes)
          => response'.status = "MethodNotAllowed"
       /\ (request'.view = "group" /\ request'.action = "list")
          => (response'.status = "OK" /\ response'.data = groups)]_vars

C8_Witness ==
    /\ request.view = "group"
    /\ request.action = "destroy"
    /\ \E g \in groups : g.id = request.pk
    /\ response.status = "MethodNotAllowed"

\* C9 as stated: an unauthenticated caller's list and retrieve of Posts and
\* Comments succeed, and its writes are rejected as Unauthenticated and change
\* nothing.
C9_AnonymousMayRead ==
    [][(request'.caller = Anon /\ request'.view \in {"post", "comment"})
       => IF request'.action \in Reads
          THEN response'.status \in {"OK", "NotFound"}
          ELSE response'.status = "Unauthenticated" /\ UNCHANGED store]_vars

\* C9 amended: every request of an unauthenticated caller on Posts or
\* Comments, reads included, is rejected as Unauthenticated, returns no data
\* and changes nothing.
C9_AnonymousRejected ==
    [][(request'.caller = Anon /\ request'.view \in {"post", "comment"})
       => /\ response'.status = "Unauthenticated"
          /\ response'.data = {}
          /\ UNCHANGED store]_vars

C9_Witness ==
    /\ request.caller = Anon
    /\ request.view = "comment"
    /\ request.action = "list"
    /\ \E c \in comments : c.post = request.post_id
    /\ response.status = "Unauthenticated"

\* C10: a comment request of an authenticated caller whose path names no
\* existing Post fails with NotFound, before the body is validated, and
\* changes nothing.
C10_MissingPostNotFound ==
    [][(/\ request'.view = "comment"
        /\ request'.caller \in Users
        /\ ~ \E p \in posts : p.id = request'.post_id)
       => (response'.status = "NotFound" /\ UNCHANGED store)]_vars

====
